---- MODULE Spec2Model ----
(***************************************************************************)
(* A model of assistant.py: the Assistant (parse_xml, process_arguments,   *)
(* resolve_variables, get_prompt, get_context, run) and the Converter      *)
(* (convert, resolve_class_path).                                          *)
(*                                                                         *)
(* Python strings are sequences of one-character strings, so that          *)
(* startswith, slicing and str.replace are computed as Python computes     *)
(* them.  A Python dict is a sequence of <<key, value>> pairs with         *)
(* distinct keys, in insertion order.  Python's None is the value None     *)
(* below, which is no string of characters.                                *)
(***************************************************************************)
EXTENDS Integers, Sequences, FiniteSets

VARIABLES
    source,        \* the command definition file on disk, as parse_xml finds it
    args,          \* self.args: the remaining command line, a list of strings
    composer,      \* the composer.json on disk, as Converter.__init__ finds it
    xml_root,      \* self.xml_root
    replacements,  \* self.replacements
    asked,         \* the calls of input() so far: <<alias, question>> each
    pc,            \* the statement of run() (or of the method under study) to execute next
    prompt,        \* run's local: the rendered prompt
    context,       \* run's local: the rendered context list
    calls,         \* the calls to the Mentat client and their returns so far:
                   \* <<"call", name, argument>> and <<"return", name, <<>>>>
    log,           \* the logging.warning and logging.error calls so far: <<level, place>>
    raised         \* the exception that ended the run, "" while there is none

vars == <<source, args, composer, xml_root, replacements, asked, pc, prompt,
          context, calls, log, raised>>

----------------------------------------------------------------------------
(* Python values *)

None == <<"<None>">>

\* s.startswith(p)
StartsWith(s, p) == Len(p) <= Len(s) /\ SubSeq(s, 1, Len(p)) = p

\* s[n:], n >= 0 (1 + n is the first index kept)
SliceFrom(s, n) == SubSeq(s, n + 1, Len(s))

\* the positions at which sub occurs in s
Occurrences(s, sub) ==
    {i \in 1..(Len(s) + 1) : i + Len(sub) - 1 <= Len(s)
                             /\ SubSeq(s, i, i + Len(sub) - 1) = sub}

\* sub in s
Contains(s, sub) == Occurrences(s, sub) # {}

\* s.find(sub, from): the first position >= from at which sub occurs, 0 when none
Find(s, sub, from) ==
    LET at == {i \in Occurrences(s, sub) : i >= from}
    IN  IF at = {} THEN 0 ELSE CHOOSE i \in at : \A j \in at : i <= j

\* a str.replace that replaces the first occurrence only (count=1)
ReplaceFirstOnly(s, old, new, from) ==
    LET i == Find(s, old, from)
    IN  IF i = 0 THEN SubSeq(s, from, Len(s))
        ELSE SubSeq(s, from, i - 1) \o new \o SubSeq(s, i + Len(old), Len(s))

RECURSIVE ReplaceFrom(_, _, _, _)
\* the part of s.replace(old, new) from position `from` on, old non-empty:
\* leftmost occurrences, never overlapping, the text after each scanned on
ReplaceFrom(s, old, new, from) ==
    LET i == Find(s, old, from)
    IN  IF i = 0 THEN SubSeq(s, from, Len(s))
        ELSE SubSeq(s, from, i - 1) \o new \o ReplaceFrom(s, old, new, i + Len(old))

RECURSIVE Interleave(_, _)
\* s.replace("", new): new before every character and at the end
Interleave(s, new) ==
    IF s = <<>> THEN new ELSE new \o <<Head(s)>> \o Interleave(Tail(s), new)

\* s.replace(old, new)
Replace(s, old, new) ==
    IF old = <<>> THEN Interleave(s, new) ELSE ReplaceFrom(s, old, new, 1)

----------------------------------------------------------------------------
(* Python dicts, insertion ordered *)

Keys(d) == {d[i][1] : i \in 1..Len(d)}

\* k in d
Has(d, k) == \E i \in 1..Len(d) : d[i][1] = k

\* d[k], for k in d
Get(d, k) == d[CHOOSE i \in 1..Len(d) : d[i][1] = k][2]

\* d[k] = v: a new key is appended, an old key keeps its place
Put(d, k, v) ==
    IF Has(d, k)
    THEN [i \in 1..Len(d) |-> IF d[i][1] = k THEN <<k, v>> ELSE d[i]]
    ELSE Append(d, <<k, v>>)

RECURSIVE Merge(_, _)
\* d | e
Merge(d, e) == IF e = <<>> THEN d ELSE Merge(Put(d, Head(e)[1], Head(e)[2]), Tail(e))

----------------------------------------------------------------------------
(* argparse, as process_arguments uses it: ArgumentParser() with its       *)
(* defaults (add_help, allow_abbrev), one add_argument("--<alias>") per    *)
(* <argument>, then parse_args(self.args).  Modelled after CPython 3.11.   *)

HelpShort == <<"-", "h">>
HelpLong == <<"-", "-", "h", "e", "l", "p">>

\* f"--{alias}"
OptionString(alias) == <<"-", "-">> \o alias

\* alias.replace("-", "_"): the attribute of the namespace that holds the value
Dest(alias) == Replace(alias, <<"-">>, <<"_">>)

\* the option strings of the parser, in the order they were added
ParserOptions(aliases) ==
    <<HelpShort, HelpLong>> \o [i \in 1..Len(aliases) |-> OptionString(aliases[i])]

\* add_argument raises: "--" alone names no dest (ValueError), an option
\* string added before conflicts (ArgumentError)
AddArgumentRaises(aliases) ==
    \E i \in 1..Len(aliases) :
        \/ aliases[i] = <<>>
        \/ OptionString(aliases[i]) = HelpLong
        \/ \E j \in 1..(i - 1) : aliases[j] = aliases[i]

\* the namespace before any argument is consumed: every dest is None
EmptyNamespace(aliases) ==
    LET RECURSIVE Fill(_, _)
        Fill(ns, rest) ==
            IF rest = <<>> THEN ns ELSE Fill(Put(ns, Dest(Head(rest)), None), Tail(rest))
    IN  Fill(<<>>, aliases)

\* the text of tok before its first "=", and after it
BeforeEq(tok) == SubSeq(tok, 1, Find(tok, <<"=">>, 1) - 1)
AfterEq(tok) == SubSeq(tok, Find(tok, <<"=">>, 1) + 1, Len(tok))

\* _parse_optional: what one command-line string is.  "A" is a value, "O" an
\* option string (opt = None when no option of the parser is meant, explicit
\* the text after "=" if any), "ambiguous" an abbreviation of several options
Classify(tok, options) ==
    LET known  == {options[i] : i \in 1..Len(options)}
        hasEq  == Contains(tok, <<"=">>)
        prefix == IF hasEq /\ tok[2] = "-" THEN BeforeEq(tok) ELSE tok
        expl   == IF hasEq /\ tok[2] = "-" THEN AfterEq(tok) ELSE None
        long   == {o \in known : StartsWith(o, prefix)}
        short  == {o \in known : o = SubSeq(tok, 1, 2)}
        abbrev == IF tok[2] = "-" THEN long ELSE short \cup long
    IN  IF tok = <<>> \/ tok[1] # "-" THEN [cls |-> "A", opt |-> None, explicit |-> None]
        ELSE IF tok \in known THEN [cls |-> "O", opt |-> tok, explicit |-> None]
        ELSE IF Len(tok) = 1 THEN [cls |-> "A", opt |-> None, explicit |-> None]
        ELSE IF hasEq /\ BeforeEq(tok) \in known
             THEN [cls |-> "O", opt |-> BeforeEq(tok), explicit |-> AfterEq(tok)]
        ELSE IF Cardinality(abbrev) > 1
             THEN [cls |-> "ambiguous", opt |-> None, explicit |-> None]
        ELSE IF Cardinality(abbrev) = 1
             THEN [cls |-> "O", opt |-> CHOOSE o \in abbrev : TRUE,
                   explicit |-> IF tok[2] = "-" THEN expl ELSE SliceFrom(tok, 2)]
        ELSE IF Contains(tok, <<" ">>) THEN [cls |-> "A", opt |-> None, explicit |-> None]
        ELSE [cls |-> "O", opt |-> None, explicit |-> None]

RECURSIVE Consume(_, _, _, _, _)
\* the consuming loop of parse_known_args from string i on, then parse_args'
\* check of the strings left over
Consume(argv, kinds, i, ns, extras) ==
    IF i > Len(argv)
    THEN [exit |-> IF extras THEN "error" ELSE "none", ns |-> ns]
    ELSE LET k == kinds[i]
         IN  IF k.cls = "A" \/ k.opt = None
             THEN Consume(argv, kinds, i + 1, ns, TRUE)
             ELSE IF k.opt \in {HelpShort, HelpLong}
             THEN [exit |-> IF k.explicit = None THEN "help" ELSE "error", ns |-> ns]
             ELSE IF k.explicit # None
             THEN Consume(argv, kinds, i + 1,
                          Put(ns, Dest(SliceFrom(k.opt, 2)), k.explicit), extras)
             ELSE IF i + 1 <= Len(argv) /\ kinds[i + 1].cls = "A"
             THEN Consume(argv, kinds, i + 2,
                          Put(ns, Dest(SliceFrom(k.opt, 2)), argv[i + 1]), extras)
             ELSE [exit |-> "error", ns |-> ns]

\* parser.parse_args(argv): exit is "none" (ns is the namespace returned),
\* "error" (parser.error: SystemExit(2)) or "help" (SystemExit(0))
ParseArgs(aliases, argv) ==
    LET options == ParserOptions(aliases)
        kinds   == [i \in 1..Len(argv) |-> Classify(argv[i], options)]
    IN  IF \E i \in 1..Len(argv) : kinds[i].cls = "ambiguous"
        THEN [exit |-> "error", ns |-> EmptyNamespace(aliases)]
        ELSE Consume(argv, kinds, 1, EmptyNamespace(aliases), FALSE)

----------------------------------------------------------------------------
(* The command definition.  An element tree root is a record: arguments    *)
(* (the <argument> elements, each [id, alias, question]), variables (the   *)
(* <variable> elements, each [id, argument, converter]), prompts (the      *)
(* <prompt> elements, each its text or None) and contexts (the <context>   *)
(* elements, each the path attributes of its <include> children), all in   *)
(* document order.  self.xml_root is <<>> for None and <<root>> otherwise. *)

NoRoot == <<>>

Root(as, vs, ps, cs) == [arguments |-> as, variables |-> vs, prompts |-> ps, contexts |-> cs]

\* what a falsy str-or-None is not
Truthy(v) == v # None /\ v # <<>>

\* getattr(cmd_args, alias.replace("-", "_"), None)
ArgumentValue(ns, alias) == IF Has(ns, Dest(alias)) THEN Get(ns, Dest(alias)) ELSE None

\* the <argument> elements process_arguments has to ask the user about
Prompted(arguments, ns) ==
    {i \in 1..Len(arguments) : ~Truthy(ArgumentValue(ns, arguments[i].alias))}

RECURSIVE ArgumentLoop(_, _, _, _, _, _)
\* the second loop of process_arguments from <argument> i on: answers[i] is
\* what input() returns for argument i
ArgumentLoop(arguments, i, ns, answers, table, inputs) ==
    IF i > Len(arguments) THEN [replacements |-> table, asked |-> inputs]
    ELSE LET a     == arguments[i]
             value == ArgumentValue(ns, a.alias)
         IN  IF Truthy(value)
             THEN ArgumentLoop(arguments, i + 1, ns, answers,
                               Put(table, a.id, value), inputs)
             ELSE ArgumentLoop(arguments, i + 1, ns, answers,
                               Put(table, a.id, answers[i]),
                               Append(inputs, <<a.alias, a.question, answers[i]>>))

Aliases(root) == [i \in 1..Len(root.arguments) |-> root.arguments[i].alias]

\* what input() may return
Answers == {<<>>, <<"p">>, <<"q">>}

\* process_arguments, returning
ProcessArguments ==
    /\ pc = "process_arguments"
    /\ xml_root # NoRoot
    /\ LET root   == xml_root[1]
           parsed == ParseArgs(Aliases(root), args)
       IN  /\ ~AddArgumentRaises(Aliases(root))
           /\ parsed.exit = "none"
           /\ \E answers \in [Prompted(root.arguments, parsed.ns) -> Answers] :
                 LET done == ArgumentLoop(root.arguments, 1, parsed.ns, answers,
                                          replacements, asked)
                 IN  /\ replacements' = done.replacements
                     /\ asked' = done.asked
    /\ pc' = "resolve_variables"
    /\ UNCHANGED <<source, args, composer, xml_root, prompt, context, calls, log, raised>>

\* process_arguments, parse_args ending the process: SystemExit(2) from
\* parser.error, SystemExit(0) after printing the help
ProcessArgumentsExit ==
    /\ pc = "process_arguments"
    /\ xml_root # NoRoot
    /\ ~AddArgumentRaises(Aliases(xml_root[1]))
    /\ LET parsed == ParseArgs(Aliases(xml_root[1]), args)
       IN  /\ parsed.exit # "none"
           /\ raised' = IF parsed.exit = "help" THEN "SystemExit(0)" ELSE "SystemExit(2)"
    /\ pc' = "raised"
    /\ UNCHANGED <<source, args, composer, xml_root, replacements, asked, prompt,
                   context, calls, log>>

\* process_arguments, add_argument raising on an alias it cannot add
ProcessArgumentsConflict ==
    /\ pc = "process_arguments"
    /\ xml_root # NoRoot
    /\ AddArgumentRaises(Aliases(xml_root[1]))
    /\ raised' = "ArgumentError"
    /\ pc' = "raised"
    /\ UNCHANGED <<source, args, composer, xml_root, replacements, asked, prompt,
                   context, calls, log>>

----------------------------------------------------------------------------
(* The Converter.  The composer.json on disk is a record: state ("ok" when *)
(* it is there and holds JSON, "missing" when there is no such file,       *)
(* "unreadable" when open() is refused, "malformed" when what it holds is  *)
(* not JSON), autoload and autoloadDev (the psr-4 object of that section   *)
(* as a dict, wrapped: <<>> when the section or its psr-4 is absent,       *)
(* <<dict>> else).                                                         *)

\* Converter.__init__: the exception that leaves the constructor, "" when
\* none does.  Only FileNotFoundError is caught: open() raises
\* PermissionError for a file that may not be read, json.load raises
\* JSONDecodeError for one that is not JSON.
ConverterInitRaises(file) ==
    CASE file.state = "unreadable" -> "PermissionError"
      [] file.state = "malformed"  -> "JSONDecodeError"
      [] OTHER                     -> ""

\* Converter.__init__: self.composer_data is None unless json.load returned
ComposerDataIsNone(file) == file.state # "ok"

\* the dict resolve_class_path gathers: autoload-dev first, then autoload
\* over it
NamespaceMap(file) ==
    LET dev  == IF file.autoloadDev # <<>> THEN Merge(<<>>, file.autoloadDev[1]) ELSE <<>>
    IN  IF file.autoload # <<>> THEN Merge(dev, file.autoload[1]) ELSE dev

PhpExtension == <<".", "p", "h", "p">>

\* f"{base_dir}{fqcn[1 + len(prefix):]}.php".replace("\\", "/")
ClassPath(base_dir, fqcn, prefix) ==
    Replace(base_dir \o SliceFrom(fqcn, 1 + Len(prefix)) \o PhpExtension, <<"\\">>, <<"/">>)

\* a test that takes the first prefix that matches, whatever its length
FirstMatch(fqcn, prefix, match_length) ==
    StartsWith(SliceFrom(fqcn, 1), prefix) /\ match_length = -1

\* the test of the loop: this prefix matches and is longer than the best so far
BetterMatch(fqcn, prefix, match_length) ==
    StartsWith(SliceFrom(fqcn, 1), prefix) /\ Len(prefix) > match_length

RECURSIVE PrefixLoop(_, _, _, _, _)
\* the loop of resolve_class_path from item i of namespace_map on
PrefixLoop(namespace_map, fqcn, i, match_length, class_path) ==
    IF i > Len(namespace_map) THEN class_path
    ELSE LET prefix   == namespace_map[i][1]
             base_dir == namespace_map[i][2]
         IN  IF BetterMatch(fqcn, prefix, match_length)
             THEN PrefixLoop(namespace_map, fqcn, i + 1, Len(prefix),
                             ClassPath(base_dir, fqcn, prefix))
             ELSE PrefixLoop(namespace_map, fqcn, i + 1, match_length, class_path)

\* converter.resolve_class_path(fqcn)
ResolveClassPath(file, fqcn) ==
    IF ComposerDataIsNone(file) THEN None
    ELSE PrefixLoop(NamespaceMap(file), fqcn, 1, -1, None)

\* converter.convert(converter, argument)
Convert(file, converter, argument) ==
    IF converter = "resolveClassPath" THEN ResolveClassPath(file, argument) ELSE None

\* what convert logs
ConvertLog(converter) ==
    IF converter = "resolveClassPath" THEN <<>> ELSE << <<"WARNING", "convert">> >>

----------------------------------------------------------------------------
(* resolve_variables *)

RECURSIVE VariableLoopBreaks(_, _, _, _, _)
\* a resolve_variables that leaves its loop (break for continue) at the first
\* variable whose argument has no value
VariableLoopBreaks(variables, i, file, table, logged) ==
    IF i > Len(variables) THEN [replacements |-> table, log |-> logged]
    ELSE LET var == variables[i]
         IN  IF ~Has(table, var.argument)
             THEN [replacements |-> table,
                   log |-> Append(logged, <<"WARNING", "resolve_variables">>)]
             ELSE LET value == Convert(file, var.converter, Get(table, var.argument))
                      after == logged \o ConvertLog(var.converter)
                  IN  IF value # None
                      THEN VariableLoopBreaks(variables, i + 1, file,
                                              Put(table, var.id, value), after)
                      ELSE VariableLoopBreaks(variables, i + 1, file, table,
                                              Append(after, <<"WARNING", "resolve_variables">>))

RECURSIVE VariableLoop(_, _, _, _, _)
\* the loop of resolve_variables from <variable> i on
VariableLoop(variables, i, file, table, logged) ==
    IF i > Len(variables) THEN [replacements |-> table, log |-> logged]
    ELSE LET var == variables[i]
         IN  IF ~Has(table, var.argument)
             THEN VariableLoop(variables, i + 1, file, table,
                               Append(logged, <<"WARNING", "resolve_variables">>))
             ELSE LET value == Convert(file, var.converter, Get(table, var.argument))
                      after == logged \o ConvertLog(var.converter)
                  IN  IF value # None
                      THEN VariableLoop(variables, i + 1, file,
                                        Put(table, var.id, value), after)
                      ELSE VariableLoop(variables, i + 1, file, table,
                                        Append(after, <<"WARNING", "resolve_variables">>))

\* what Converter.__init__ logs
ConverterInitLog(file) ==
    IF file.state = "missing" THEN << <<"WARNING", "Converter.__init__">> >> ELSE <<>>

\* resolve_variables
ResolveVariables ==
    /\ pc = "resolve_variables"
    /\ xml_root # NoRoot
    /\ ConverterInitRaises(composer) = ""
    /\ LET done == VariableLoop(xml_root[1].variables, 1, composer, replacements,
                                log \o ConverterInitLog(composer))
       IN  /\ replacements' = done.replacements
           /\ log' = done.log
    /\ pc' = "get_prompt"
    /\ UNCHANGED <<source, args, composer, xml_root, asked, prompt, context, calls,
                   raised>>

\* resolve_variables when Converter(...) raises: nothing is logged, no
\* variable is reached, and the exception leaves resolve_variables and run
ResolveVariablesRaises ==
    /\ pc = "resolve_variables"
    /\ xml_root # NoRoot
    /\ ConverterInitRaises(composer) # ""
    /\ raised' = ConverterInitRaises(composer)
    /\ pc' = "raised"
    /\ UNCHANGED <<source, args, composer, xml_root, replacements, asked, prompt,
                   context, calls, log>>

----------------------------------------------------------------------------
(* get_prompt *)

Whitespace == {" ", "\n", "\t"}

RECURSIVE LStrip(_)
LStrip(s) == IF s # <<>> /\ Head(s) \in Whitespace THEN LStrip(Tail(s)) ELSE s

RECURSIVE RStrip(_)
RStrip(s) ==
    IF s # <<>> /\ s[Len(s)] \in Whitespace THEN RStrip(SubSeq(s, 1, Len(s) - 1)) ELSE s

\* s.strip()
Strip(s) == RStrip(LStrip(s))

\* root.find(tag): the first element of that tag, None when there is none
Find1(elements) == IF elements = <<>> THEN None ELSE Head(elements)

RECURSIVE RenderPromptSwapped(_, _)
\* a get_prompt that calls prompt.replace(replace, search)
RenderPromptSwapped(text, table) ==
    IF table = <<>> THEN text
    ELSE RenderPromptSwapped(Replace(text, Head(table)[2], Head(table)[1]), Tail(table))

RECURSIVE RenderPrompt(_, _)
\* the loop of get_prompt: one str.replace per entry, in the table's order
RenderPrompt(text, table) ==
    IF table = <<>> THEN text
    ELSE RenderPrompt(Replace(text, Head(table)[1], Head(table)[2]), Tail(table))

\* self.xml_root.find("prompt").text.strip() raises AttributeError: there is
\* no <prompt>, or it has no text
PromptMissing(root) == Find1(root.prompts) = None

\* get_prompt, returning
GetPrompt ==
    /\ pc = "get_prompt"
    /\ xml_root # NoRoot
    /\ ~PromptMissing(xml_root[1])
    /\ prompt' = RenderPrompt(Strip(Find1(xml_root[1].prompts)), replacements)
    /\ pc' = "get_context"
    /\ UNCHANGED <<source, args, composer, xml_root, replacements, asked, context,
                   calls, log, raised>>

\* get_prompt, raising: run does not catch it
GetPromptRaises ==
    /\ pc = "get_prompt"
    /\ xml_root # NoRoot
    /\ PromptMissing(xml_root[1])
    /\ raised' = "AttributeError"
    /\ pc' = "raised"
    /\ UNCHANGED <<source, args, composer, xml_root, replacements, asked, prompt,
                   context, calls, log>>

----------------------------------------------------------------------------
(* get_context *)

RECURSIVE ContextLoopNoDuplicates(_, _, _, _)
\* a get_context that adds an entry only if it is not in the list yet
ContextLoopNoDuplicates(includes, i, table, ret) ==
    IF i > Len(includes) THEN ret
    ELSE LET path  == includes[i]
             entry == IF StartsWith(path, <<"$">>)
                      THEN Get(table, SliceFrom(path, 1)) ELSE path
             skip  == \/ StartsWith(path, <<"$">>) /\ ~Has(table, SliceFrom(path, 1))
                      \/ \E j \in 1..Len(ret) : ret[j] = entry
         IN  ContextLoopNoDuplicates(includes, i + 1, table,
                                     IF skip THEN ret ELSE Append(ret, entry))

RECURSIVE ContextLoop(_, _, _, _)
\* the loop of get_context from <include> i on
ContextLoop(includes, i, table, ret) ==
    IF i > Len(includes) THEN ret
    ELSE LET path == includes[i]
         IN  IF StartsWith(path, <<"$">>)
             THEN IF Has(table, SliceFrom(path, 1))
                  THEN ContextLoop(includes, i + 1, table,
                                   Append(ret, Get(table, SliceFrom(path, 1))))
                  ELSE ContextLoop(includes, i + 1, table, ret)
             ELSE ContextLoop(includes, i + 1, table, Append(ret, path))

\* the list get_context returns
RenderContext(root, table) ==
    IF root.contexts = <<>> THEN <<>> ELSE ContextLoop(Head(root.contexts), 1, table, <<>>)

\* the warnings get_context logs: one per "$" include it cannot resolve
ContextLog(root, table) ==
    IF root.contexts = <<>> THEN <<>>
    ELSE LET includes == Head(root.contexts)
             RECURSIVE Warn(_)
             Warn(i) ==
                 IF i > Len(includes) THEN <<>>
                 ELSE (IF StartsWith(includes[i], <<"$">>)
                          /\ ~Has(table, SliceFrom(includes[i], 1))
                       THEN << <<"WARNING", "get_context">> >> ELSE <<>>) \o Warn(i + 1)
         IN  Warn(1)

\* get_context
GetContext ==
    /\ pc = "get_context"
    /\ xml_root # NoRoot
    /\ context' = RenderContext(xml_root[1], replacements)
    /\ log' = log \o ContextLog(xml_root[1], replacements)
    /\ pc' = "create_client"
    /\ UNCHANGED <<source, args, composer, xml_root, replacements, asked, prompt,
                   calls, raised>>

----------------------------------------------------------------------------
(* parse_xml and run *)

\* parse_xml returning, in run's try
ParseXml ==
    /\ pc = "parse_xml"
    /\ xml_root = NoRoot
    /\ source.state = "ok"
    /\ xml_root' = <<source.root>>
    /\ pc' = "process_arguments"
    /\ UNCHANGED <<source, args, composer, replacements, asked, prompt, context,
                   calls, log, raised>>

\* parse_xml raising RuntimeError (no such file, or ET.ParseError), which run
\* catches: it logs the error and returns
ParseXmlFails ==
    /\ pc = "parse_xml"
    /\ xml_root = NoRoot
    /\ source.state \in {"missing", "malformed"}
    /\ log' = Append(log, <<"ERROR", "run">>)
    /\ pc' = "returned"
    /\ UNCHANGED <<source, args, composer, xml_root, replacements, asked, prompt,
                   context, calls, raised>>

\* client = Mentat(paths=context)
CreateClient ==
    /\ pc = "create_client"
    /\ calls' = Append(calls, <<"call", "Mentat", context>>)
    /\ pc' = "startup"
    /\ UNCHANGED <<source, args, composer, xml_root, replacements, asked, prompt,
                   context, log, raised>>

\* run calls coroutine `name` of the client with `argument` and awaits it
Await(name, argument) ==
    /\ pc = name
    /\ calls' = Append(calls, <<"call", name, argument>>)
    /\ pc' = "await"
    /\ UNCHANGED <<source, args, composer, xml_root, replacements, asked, prompt,
                   context, log, raised>>

\* the awaited coroutine `name` returns, and run goes on at `next`
Resume(name, next) ==
    /\ pc = "await"
    /\ calls[Len(calls)][2] = name
    /\ calls' = Append(calls, <<"return", name, <<>>>>)
    /\ pc' = next
    /\ UNCHANGED <<source, args, composer, xml_root, replacements, asked, prompt,
                   context, log, raised>>

\* client.startup() called and not awaited: run goes straight on
StartupNotAwaited ==
    /\ pc = "startup"
    /\ calls' = Append(calls, <<"call", "startup", <<>>>>)
    /\ pc' = "call_mentat_auto_accept"
    /\ UNCHANGED <<source, args, composer, xml_root, replacements, asked, prompt,
                   context, log, raised>>

\* await client.startup()
Startup == Await("startup", <<>>)
StartupReturns == Resume("startup", "call_mentat_auto_accept")

\* await client.call_mentat_auto_accept(prompt)
CallMentatAutoAccept == Await("call_mentat_auto_accept", prompt)
CallMentatAutoAcceptReturns == Resume("call_mentat_auto_accept", "shutdown")

\* await client.shutdown()
Shutdown == Await("shutdown", <<>>)
ShutdownReturns == Resume("shutdown", "done")

----------------------------------------------------------------------------
(* process_arguments on its own: every list of at most MaxArgs <argument>  *)
(* elements over a pool of ids and aliases (one alias a prefix of another, *)
(* two that differ in "-" and "_" only), against every command line of at  *)
(* most MaxCli flags, each "--flag value" or "--flag=value".               *)

MaxArgs == 2
MaxCli == 2

SeqsUpTo(S, n) == UNION {[1..k -> S] : k \in 0..n}

RECURSIVE Flatten(_)
Flatten(ss) == IF ss = <<>> THEN <<>> ELSE Head(ss) \o Flatten(Tail(ss))

ArgIds == {<<"X">>, <<"Y">>}
AliasPool == {<<"a", "-", "b">>, <<"a", "_", "b">>, <<"a", "-", "b", "c">>}
ArgumentPool == [id : ArgIds, alias : AliasPool, question : {<<"?">>}]

\* the declared flags, an abbreviation of them, an undeclared flag, and an
\* abbreviation of --help
FlagPool ==
    {OptionString(a) : a \in AliasPool}
        \cup {<<"-", "-", "a">>, <<"-", "-", "x">>, <<"-", "-", "h">>}
CliValues == {<<>>, <<"v">>, <<"w">>}
CliItems ==
    {<<f, v>> : f \in FlagPool, v \in CliValues}
        \cup {<<f \o <<"=">> \o v>> : f \in FlagPool, v \in CliValues}
CliLists == {Flatten(items) : items \in SeqsUpTo(CliItems, MaxCli)}

DefaultComposer == [state |-> "missing", autoload |-> <<>>, autoloadDev |-> <<>>]

InitArgs ==
    /\ \E as \in SeqsUpTo(ArgumentPool, MaxArgs) :
          /\ source = [state |-> "ok", root |-> Root(as, <<>>, << <<"X">> >>, <<>>)]
          /\ xml_root = <<source.root>>
    /\ args \in CliLists
    /\ composer = DefaultComposer
    /\ replacements = <<>>
    /\ asked = <<>>
    /\ pc = "process_arguments"
    /\ prompt = None
    /\ context = <<>>
    /\ calls = <<>>
    /\ log = <<>>
    /\ raised = ""

NextArgs == ProcessArguments \/ ProcessArgumentsExit \/ ProcessArgumentsConflict

SpecArgs == InitArgs /\ [][NextArgs]_vars

----------------------------------------------------------------------------
(* Claims about process_arguments *)

Distinct(seq) == \A i, j \in 1..Len(seq) : i # j => seq[i] # seq[j]

Ids(root) == [i \in 1..Len(root.arguments) |-> root.arguments[i].id]

Declared(aliases) == {OptionString(aliases[i]) : i \in 1..Len(aliases)}

\* a command-line string that is a flag, and the flag it names
IsFlag(tok) == tok # <<>> /\ tok[1] = "-"
FlagOf(tok) == IF Contains(tok, <<"=">>) THEN BeforeEq(tok) ELSE tok

RECURSIVE WellFormedCli(_, _)
\* argv is a list of "--alias value" and "--alias=value", every alias declared
WellFormedCli(argv, aliases) ==
    \/ argv = <<>>
    \/ /\ Head(argv) \in Declared(aliases)
       /\ Len(argv) >= 2
       /\ ~IsFlag(argv[2])
       /\ WellFormedCli(SubSeq(argv, 3, Len(argv)), aliases)
    \/ /\ IsFlag(Head(argv))
       /\ Contains(Head(argv), <<"=">>)
       /\ BeforeEq(Head(argv)) \in Declared(aliases)
       /\ WellFormedCli(Tail(argv), aliases)

RECURSIVE CliValue(_, _, _)
\* the value a well-formed argv supplies for alias (the last one, if it is
\* given twice), cur when it supplies none
CliValue(argv, alias, cur) ==
    IF argv = <<>> THEN cur
    ELSE IF Contains(Head(argv), <<"=">>)
    THEN CliValue(Tail(argv), alias,
                  IF BeforeEq(Head(argv)) = OptionString(alias)
                  THEN AfterEq(Head(argv)) ELSE cur)
    ELSE CliValue(SubSeq(argv, 3, Len(argv)), alias,
                  IF Head(argv) = OptionString(alias) THEN argv[2] ELSE cur)

\* the arguments, by position, for which argv supplies no non-empty value
Unsupplied(root, argv) ==
    {i \in 1..Len(root.arguments) :
        ~Truthy(CliValue(argv, root.arguments[i].alias, None))}

\* the table and the log of input() calls are what the claim says they are
ArgumentsAsClaimed(root, argv) ==
    LET as      == root.arguments
        missing == Unsupplied(root, argv)
        rank(i) == Cardinality({j \in missing : j <= i})
    IN  /\ Len(replacements) = Len(as)
        /\ \A i \in 1..Len(as) : replacements[i][1] = as[i].id
        /\ Len(asked) = Cardinality(missing)
        /\ \A i \in 1..Len(as) :
              IF i \in missing
              THEN /\ asked[rank(i)][1] = as[i].alias
                   /\ asked[rank(i)][2] = as[i].question
                   /\ replacements[i][2] = asked[rank(i)][3]
              ELSE replacements[i][2] = CliValue(argv, as[i].alias, None)

\* C1: with distinct ids and distinct aliases and a command line of declared
\* aliases only ("--alias value" or "--alias=value"), after process_arguments
\* the table holds exactly the declared ids in declaration order, each with
\* its non-empty command-line value or else with what input() returned, and
\* input() was called once per argument without such a value, in order.
C1_ArgumentsResolved ==
    (/\ pc = "resolve_variables"
     /\ Distinct(Ids(xml_root[1]))
     /\ Distinct(Aliases(xml_root[1]))
     /\ WellFormedCli(args, Aliases(xml_root[1])))
        => ArgumentsAsClaimed(xml_root[1], args)

\* the same, for command definitions whose aliases stay distinct when "-" is
\* written "_" (the attribute names argparse stores them under)
C1_ArgumentsResolvedDistinctDest ==
    (/\ pc = "resolve_variables"
     /\ Distinct(Ids(xml_root[1]))
     /\ Distinct([i \in 1..Len(xml_root[1].arguments) |-> Dest(Aliases(xml_root[1])[i])])
     /\ WellFormedCli(args, Aliases(xml_root[1])))
        => ArgumentsAsClaimed(xml_root[1], args)

\* a flag of argv is not exactly "--alias" for a declared alias
HasUndeclaredFlag(argv, aliases) ==
    \E i \in 1..Len(argv) : IsFlag(argv[i]) /\ FlagOf(argv[i]) \notin Declared(aliases)

\* C7: when the command line holds a flag that is not exactly the alias of a
\* declared argument, process_arguments does not return (the argument parser
\* ends the process) and records nothing in the table.
C7_UndeclaredFlagRejected ==
    (/\ pc # "process_arguments"
     /\ ~AddArgumentRaises(Aliases(xml_root[1]))
     /\ HasUndeclaredFlag(args, Aliases(xml_root[1])))
        => (pc = "raised" /\ raised # "" /\ replacements = <<>>)

\* the same for flags that no declared alias and no built-in option starts with
C7_UnknownFlagRejected ==
    (/\ pc # "process_arguments"
     /\ ~AddArgumentRaises(Aliases(xml_root[1]))
     /\ \E i \in 1..Len(args) :
           /\ IsFlag(args[i])
           /\ \A o \in Declared(Aliases(xml_root[1])) \cup {HelpShort, HelpLong} :
                 ~StartsWith(o, FlagOf(args[i])))
        => (pc = "raised" /\ raised # "" /\ replacements = <<>>)

----------------------------------------------------------------------------
(* get_prompt on its own: every template of at most MaxTemplateLen         *)
(* characters against every table of at most MaxTable entries, the ids     *)
(* and values from pools in which an id is part of another, a value holds  *)
(* an id, and an id or a value is empty.  The table is the one             *)
(* process_arguments leaves when every value was asked for.                *)

MaxTemplateLen == 4
MaxTable == 2

TemplateChars == {"A", "B"}
Templates == SeqsUpTo(TemplateChars, MaxTemplateLen)
IdPool == {<<>>, <<"A">>, <<"B">>, <<"A", "B">>, <<"B", "A">>}
ValuePool == {<<>>, <<"x">>, <<"A">>, <<"B">>, <<"A", "B">>}
Tables == {t \in SeqsUpTo(IdPool \X ValuePool, MaxTable) : Distinct([i \in 1..Len(t) |-> t[i][1]])}

\* the <argument> elements whose ids are the keys of table
ArgumentsFor(table) ==
    [i \in 1..Len(table) |-> [id |-> table[i][1], alias |-> table[i][1], question |-> <<"?">>]]

InitPrompt ==
    /\ replacements \in Tables
    /\ \E t \in Templates :
          source = [state |-> "ok",
                    root |-> Root(ArgumentsFor(replacements), <<>>, <<t>>, <<>>)]
    /\ xml_root = <<source.root>>
    /\ args = <<>>
    /\ composer = DefaultComposer
    /\ asked = [i \in 1..Len(replacements) |-> <<replacements[i][1], <<"?">>, replacements[i][2]>>]
    /\ pc = "get_prompt"
    /\ prompt = None
    /\ context = <<>>
    /\ calls = <<>>
    /\ log = <<>>
    /\ raised = ""

NextPrompt == GetPrompt

SpecPrompt == InitPrompt /\ [][NextPrompt]_vars

\* the template get_prompt starts from
Template == Strip(Find1(xml_root[1].prompts))

\* a and b overlap: one occurs in the other, or a non-empty end of one is a
\* beginning of the other
Overlaps(a, b) ==
    \/ a # <<>> /\ Contains(b, a)
    \/ b # <<>> /\ Contains(a, b)
    \/ \E n \in 1..Len(a) : n <= Len(b)
          /\ (\/ SubSeq(a, Len(a) - n + 1, Len(a)) = SubSeq(b, 1, n)
              \/ SubSeq(b, Len(b) - n + 1, Len(b)) = SubSeq(a, 1, n))

\* C2 as stated: an id (of one character at least) that is a key of the
\* table does not occur in the rendered prompt unless its own value holds an
\* id of the table.
C2_KeyGoneUnlessOwnValue ==
    pc = "get_context" =>
        \A i \in 1..Len(replacements) :
            (replacements[i][1] # <<>> /\ Contains(prompt, replacements[i][1]))
                => \E k \in Keys(replacements) :
                       k # <<>> /\ Contains(replacements[i][2], k)

\* C2 amended: an id (of one character at least) that is a key of the table
\* does not occur in the rendered prompt unless its own value, or the value
\* of a key substituted after it, is empty or overlaps the id.
C2_KeyGoneUnlessOverlap ==
    pc = "get_context" =>
        \A i \in 1..Len(replacements) :
            (/\ replacements[i][1] # <<>>
             /\ \A j \in i..Len(replacements) :
                   /\ replacements[j][2] # <<>>
                   /\ ~Overlaps(replacements[i][1], replacements[j][2]))
                => ~Contains(prompt, replacements[i][1])

\* get_prompt replaced an id that stood in the template, a later entry was
\* substituted after it, and the id is gone from the result
C2_Witness ==
    /\ pc = "get_context"
    /\ Len(replacements) = 2
    /\ replacements[1][1] # <<>>
    /\ Contains(Template, replacements[1][1])
    /\ Contains(Template, replacements[2][1])
    /\ \A j \in 1..2 : /\ replacements[j][2] # <<>>
                       /\ ~Overlaps(replacements[1][1], replacements[j][2])
    /\ ~Contains(prompt, replacements[1][1])

\* the ids, of the table or not, have one character at least
NonEmptyIds(u) == u # <<>> /\ <<>> \notin Keys(replacements)

\* C9 as stated: every occurrence in the template of an id that is not a
\* key of the table is still there in the rendered prompt (ids having one
\* character at least).
C9_UnknownIdKept ==
    pc = "get_context" =>
        \A u \in IdPool \ Keys(replacements) :
            NonEmptyIds(u)
                => Cardinality(Occurrences(prompt, u))
                       >= Cardinality(Occurrences(Template, u))

\* C9 amended: every occurrence in the template of an id that is not a key
\* of the table and that no key of the table overlaps is still there in the
\* rendered prompt (ids having one character at least).
C9_UnknownIdKeptUnlessOverlap ==
    pc = "get_context" =>
        \A u \in IdPool \ Keys(replacements) :
            (NonEmptyIds(u) /\ \A k \in Keys(replacements) : ~Overlaps(k, u))
                => Cardinality(Occurrences(prompt, u))
                       >= Cardinality(Occurrences(Template, u))

\* an id that is no key stood in the template beside a key that get_prompt
\* replaced, and is still there
C9_Witness ==
    /\ pc = "get_context"
    /\ \E u \in IdPool \ Keys(replacements) :
          /\ NonEmptyIds(u)
          /\ \A k \in Keys(replacements) : ~Overlaps(k, u)
          /\ Contains(Template, u)
          /\ \E k \in Keys(replacements) : Contains(Template, k)
          /\ prompt # Template
          /\ Contains(prompt, u)

----------------------------------------------------------------------------
(* get_context on its own: every <context> of at most MaxIncludes includes *)
(* (literal paths, "$" references to ids, one path twice) or none at all,  *)
(* against tables process_arguments can leave.                             *)

MaxIncludes == 3

IncludePool ==
    {<<"t">>, <<"s">>, <<"$", "X">>, <<"$", "Y">>, <<"X">>}
ContextTables ==
    {t \in SeqsUpTo({<<"X">>, <<"Y">>} \X {<<"t">>, <<"u">>, <<>>}, MaxTable) :
        Distinct([i \in 1..Len(t) |-> t[i][1]])}

InitContext ==
    /\ replacements \in ContextTables
    /\ \E cs \in {<<>>} \cup {<<incs>> : incs \in SeqsUpTo(IncludePool, MaxIncludes)} :
          source = [state |-> "ok",
                    root |-> Root(ArgumentsFor(replacements), <<>>, << <<"X">> >>, cs)]
    /\ xml_root = <<source.root>>
    /\ args = <<>>
    /\ composer = DefaultComposer
    /\ asked = [i \in 1..Len(replacements) |-> <<replacements[i][1], <<"?">>, replacements[i][2]>>]
    /\ pc = "get_context"
    /\ prompt = RenderPrompt(<<"X">>, replacements)
    /\ context = <<>>
    /\ calls = <<>>
    /\ log = << <<"WARNING", "Converter.__init__">> >>
    /\ raised = ""

NextContext == GetContext

SpecContext == InitContext /\ [][NextContext]_vars

\* the includes of the command definition, none when it has no <context>
Includes == IF xml_root[1].contexts = <<>> THEN <<>> ELSE Head(xml_root[1].contexts)

IsReference(path) == path # <<>> /\ path[1] = "$"

\* the includes, by position, that name an id the table does not hold
Unresolved ==
    {i \in 1..Len(Includes) :
        IsReference(Includes[i]) /\ Tail(Includes[i]) \notin Keys(replacements)}

\* C3: get_context returns one entry per include that is not an unresolved
\* "$" reference, in the order of the includes, nothing sorted, nothing
\* dropped as a duplicate: a path without "$" as it is, "$X" as the whole
\* value of X; and the empty list when there is no <context>.
C3_ContextInOrder ==
    pc = "create_client" =>
        LET kept    == (1..Len(Includes)) \ Unresolved
            rank(i) == Cardinality({j \in kept : j <= i})
        IN  /\ Len(context) = Len(Includes) - Cardinality(Unresolved)
            /\ \A i \in kept :
                  context[rank(i)] =
                      IF IsReference(Includes[i])
                      THEN Get(replacements, Tail(Includes[i]))
                      ELSE Includes[i]
            /\ xml_root[1].contexts = <<>> => context = <<>>

\* get_context has rendered a list with a resolved reference, an unresolved
\* one that it dropped, and the same entry twice
C3_Witness ==
    /\ pc = "create_client"
    /\ Unresolved # {}
    /\ \E i \in 1..Len(Includes) : IsReference(Includes[i]) /\ i \notin Unresolved
    /\ Len(context) = 2
    /\ context[1] = context[2]

\* get_context has returned the empty list for a definition with no <context>
C3_WitnessNoContext ==
    pc = "create_client" /\ xml_root[1].contexts = <<>> /\ context = <<>>

----------------------------------------------------------------------------
(* resolve_class_path on its own, as resolve_variables calls it for one    *)
(* <variable id="V" argument="X" converter="resolveClassPath">: every      *)
(* composer.json whose autoload section has at most MaxNamespaces prefixes *)
(* (the empty one, one that is a beginning of another, one that ends       *)
(* inside a name) and whose autoload-dev section has at most one, against  *)
(* fully-qualified class names, which begin with the separator.            *)

MaxNamespaces == 2

Sep == "\\"
PrefixPool == {<<>>, <<"A">>, <<"A", Sep>>, <<"A", Sep, "B", Sep>>}
BaseDirPool == {<<"s", "/">>, <<"t">>, <<"w", Sep>>}
ClassNames ==
    {<<Sep, "A", Sep, "B", Sep, "C">>, <<Sep, "A", Sep, "C">>, <<Sep, "A", "B">>, <<Sep, "C">>}

Psr4(n) ==
    {m \in SeqsUpTo(PrefixPool \X BaseDirPool, n) : Distinct([i \in 1..Len(m) |-> m[i][1]])}
Sections(n) == {<<>>} \cup {<<m>> : m \in Psr4(n)}

InitPath ==
    /\ composer \in [state : {"ok"}, autoload : Sections(MaxNamespaces),
                     autoloadDev : Sections(1)]
    /\ \E fqcn \in ClassNames :
          /\ replacements = << <<<<"X">>, fqcn>> >>
          /\ asked = << <<<<"x">>, <<"?">>, fqcn>> >>
    /\ source = [state |-> "ok",
                 root |-> Root(<<[id |-> <<"X">>, alias |-> <<"x">>, question |-> <<"?">>]>>,
                               <<[id |-> <<"V">>, argument |-> <<"X">>,
                                  converter |-> "resolveClassPath"]>>,
                               << <<"V">> >>, <<>>)]
    /\ xml_root = <<source.root>>
    /\ args = <<>>
    /\ pc = "resolve_variables"
    /\ prompt = None
    /\ context = <<>>
    /\ calls = <<>>
    /\ log = <<>>
    /\ raised = ""

NextPath == ResolveVariables

SpecPath == InitPath /\ [][NextPath]_vars

\* the class name resolve_class_path was given, and what it returned
Fqcn == Get(replacements, <<"X">>)
Result == IF Has(replacements, <<"V">>) THEN Get(replacements, <<"V">>) ELSE None

\* the entries of the namespace map, by position, whose prefix the class name
\* (without its leading separator) begins with
Matching ==
    {i \in 1..Len(NamespaceMap(composer)) :
        StartsWith(Tail(Fqcn), NamespaceMap(composer)[i][1])}

\* C4: resolve_class_path builds its result from the entry with the longest
\* prefix among those the class name, its leading separator stripped, begins
\* with; the empty prefix matches every class name; the result is None
\* exactly when no prefix matches.
C4_LongestPrefixWins ==
    pc = "get_prompt" =>
        LET m == NamespaceMap(composer)
        IN  /\ Result = None <=> Matching = {}
            /\ Has(m, <<>>) => Result # None
            /\ \A i \in Matching :
                  (\A j \in Matching : Len(m[j][1]) <= Len(m[i][1]))
                      => Result = ClassPath(m[i][2], Fqcn, m[i][1])

\* resolve_class_path chose between the empty prefix and a longer one that
\* came earlier in the map, and between it and one that came later
C4_Witness ==
    /\ pc = "get_prompt"
    /\ Cardinality(Matching) = 2
    /\ \E i, j \in Matching :
          /\ i < j
          /\ Len(NamespaceMap(composer)[i][1]) > Len(NamespaceMap(composer)[j][1])
          /\ NamespaceMap(composer)[i][2] # NamespaceMap(composer)[j][2]
          /\ Result = ClassPath(NamespaceMap(composer)[i][2], Fqcn,
                                NamespaceMap(composer)[i][1])

\* C5: the path returned is the matched entry's base directory exactly as
\* configured, then the rest of the class name after the prefix with every
\* backslash written as a slash, then ".php".
C5_BaseDirVerbatim ==
    pc = "get_prompt" =>
        LET m == NamespaceMap(composer)
        IN  \A i \in Matching :
                (\A j \in Matching : Len(m[j][1]) <= Len(m[i][1]))
                    => Result = m[i][2]
                                  \o Replace(SliceFrom(Tail(Fqcn), Len(m[i][1])),
                                             <<Sep>>, <<"/">>)
                                  \o PhpExtension

\* the same for base directories that hold no backslash
C5_BaseDirVerbatimNoBackslash ==
    pc = "get_prompt" =>
        LET m == NamespaceMap(composer)
        IN  \A i \in Matching :
                (/\ \A j \in Matching : Len(m[j][1]) <= Len(m[i][1])
                 /\ ~Contains(m[i][2], <<Sep>>))
                    => Result = m[i][2]
                                  \o Replace(SliceFrom(Tail(Fqcn), Len(m[i][1])),
                                             <<Sep>>, <<"/">>)
                                  \o PhpExtension

----------------------------------------------------------------------------
(* resolve_variables on its own: every list of at most MaxVars <variable>  *)
(* elements (naming an argument that has a value, one that has none, or an *)
(* earlier variable; a known converter or an unknown one; an id that is    *)
(* new or that of an argument), with a composer.json that is missing, that *)
(* resolves every class name, that resolves only some, or that may not be  *)
(* read.  The table is the one process_arguments leaves when every value   *)
(* was asked for.                                                          *)

MaxVars == 2

VariablePool ==
    [id : {<<"V">>, <<"W">>, <<"X">>}, argument : {<<"X">>, <<"Y">>, <<"V">>},
     converter : {"resolveClassPath", "unknown"}]
ComposerPool ==
    {DefaultComposer,
     [state |-> "ok", autoload |-> << << <<<<>>, <<"t", "/">>>> >> >>, autoloadDev |-> <<>>],
     [state |-> "ok", autoload |-> <<>>,
      autoloadDev |-> << << <<<<"A", Sep>>, <<"s", "/">>>> >> >>],
     [state |-> "unreadable", autoload |-> << << <<<<>>, <<"t", "/">>>> >> >>,
      autoloadDev |-> <<>>]}
ArgumentTables ==
    {<< <<<<"X">>, x>> >> : x \in {<<Sep, "A", Sep, "C">>, <<Sep, "C">>}}
        \cup {<< <<<<"X">>, x>>, <<<<"Y">>, <<Sep, "A", Sep, "C">>>> >> :
                 x \in {<<Sep, "A", Sep, "C">>, <<Sep, "C">>}}

InitVars ==
    /\ replacements \in ArgumentTables
    /\ \E vs \in SeqsUpTo(VariablePool, MaxVars) :
          source = [state |-> "ok",
                    root |-> Root(ArgumentsFor(replacements), vs, << <<"V">> >>, <<>>)]
    /\ xml_root = <<source.root>>
    /\ args = <<>>
    /\ composer \in ComposerPool
    /\ asked = [i \in 1..Len(replacements) |-> <<replacements[i][1], <<"?">>, replacements[i][2]>>]
    /\ pc = "resolve_variables"
    /\ prompt = None
    /\ context = <<>>
    /\ calls = <<>>
    /\ log = <<>>
    /\ raised = ""

NextVars == ResolveVariables \/ ResolveVariablesRaises

SpecVars == InitVars /\ [][NextVars]_vars

\* the table process_arguments left: every argument's id with the answer
\* input() gave for it
ArgumentsTable ==
    [i \in 1..Len(xml_root[1].arguments) |-> <<xml_root[1].arguments[i].id, asked[i][3]>>]

\* the table after the first k variables, as the claim has it: a variable
\* adds its id, with the converter's result, exactly when its argument is a
\* key by then and the converter returns a value for that key's value
ClaimedTable[k \in Nat] ==
    IF k = 0 THEN ArgumentsTable
    ELSE LET var  == xml_root[1].variables[k]
             prev == ClaimedTable[k - 1]
         IN  IF /\ var.argument \in Keys(prev)
                /\ Convert(composer, var.converter, Get(prev, var.argument)) # None
             THEN Append(prev, <<var.id,
                                 Convert(composer, var.converter, Get(prev, var.argument))>>)
             ELSE prev

VariableIds == [i \in 1..Len(xml_root[1].variables) |-> xml_root[1].variables[i].id]

\* C6: after resolve_variables, variable by variable in document order, a
\* variable's id is in the table if and only if its argument id was a key
\* when the variable was reached and the converter returned a value for it,
\* with that value; a skipped variable changes nothing; the entries of
\* process_arguments are as they were (variable ids being distinct, and
\* distinct from argument ids).
C6_VariablesResolved ==
    (pc = "get_prompt" /\ Distinct(Ids(xml_root[1]) \o VariableIds))
        => /\ replacements = ClaimedTable[Len(xml_root[1].variables)]
           /\ SubSeq(replacements, 1, Len(ArgumentsTable)) = ArgumentsTable

\* resolve_variables skipped a first variable whose argument has no value,
\* and resolved a second one
C6_Witness ==
    /\ pc = "get_prompt"
    /\ Distinct(Ids(xml_root[1]) \o VariableIds)
    /\ Len(VariableIds) = 2
    /\ xml_root[1].variables[1].argument \notin Keys(ArgumentsTable)
    /\ ~Has(replacements, VariableIds[1])
    /\ Has(replacements, VariableIds[2])

----------------------------------------------------------------------------
(* The Converter on its own, as resolve_variables constructs and queries   *)
(* it for <variable id="V" argument="X"> and <variable id="W"              *)
(* argument="Y">, both with resolveClassPath: a composer.json that is      *)
(* there (no autoload section, or one with one prefix), one with the same  *)
(* content that may not be read, one that is missing and one that is not   *)
(* JSON, against every pair of class names.                                *)

ConverterComposers ==
    [state : {"ok", "unreadable"}, autoload : Sections(1), autoloadDev : {<<>>}]
        \cup {DefaultComposer,
              [state |-> "malformed", autoload |-> <<>>, autoloadDev |-> <<>>]}

InitConverter ==
    /\ composer \in ConverterComposers
    /\ \E x \in ClassNames, y \in ClassNames :
          /\ replacements = << <<<<"X">>, x>>, <<<<"Y">>, y>> >>
          /\ asked = << <<<<"x">>, <<"?">>, x>>, <<<<"y">>, <<"?">>, y>> >>
    /\ source = [state |-> "ok",
                 root |-> Root(<<[id |-> <<"X">>, alias |-> <<"x">>, question |-> <<"?">>],
                                 [id |-> <<"Y">>, alias |-> <<"y">>, question |-> <<"?">>]>>,
                               <<[id |-> <<"V">>, argument |-> <<"X">>,
                                  converter |-> "resolveClassPath"],
                                 [id |-> <<"W">>, argument |-> <<"Y">>,
                                  converter |-> "resolveClassPath"]>>,
                               << <<"V">> >>, <<>>)]
    /\ xml_root = <<source.root>>
    /\ args = <<>>
    /\ pc = "resolve_variables"
    /\ prompt = None
    /\ context = <<>>
    /\ calls = <<>>
    /\ log = <<>>
    /\ raised = ""

NextConverter == ResolveVariables \/ ResolveVariablesRaises

SpecConverter == InitConverter /\ [][NextConverter]_vars

\* the warnings of Converter.__init__ in the log, by position
ConstructionWarnings ==
    {i \in 1..Len(log) : log[i] = <<"WARNING", "Converter.__init__">>}

\* the Converter was constructed without an error, warned once, and returns
\* null for every class name: for the two it was asked about, so that
\* neither variable has a value, and for every other one
WarnsOnceAndResolvesNothing ==
    /\ pc = "get_prompt"
    /\ raised = ""
    /\ Cardinality(ConstructionWarnings) = 1
    /\ ~Has(replacements, <<"V">>)
    /\ ~Has(replacements, <<"W">>)
    /\ \A fqcn \in ClassNames : ResolveClassPath(composer, fqcn) = None

\* C11: when composer.json is missing or may not be read, constructing the
\* Converter raises nothing, logs one warning, and resolve_class_path
\* returns null for every class name afterwards.
C11_UnavailableComposerNeverFails ==
    (composer.state \in {"missing", "unreadable"} /\ pc # "resolve_variables")
        => WarnsOnceAndResolvesNothing

\* the same for the one case Converter.__init__ catches, the missing file
C11_MissingComposerWarnsOnce ==
    (composer.state = "missing" /\ pc # "resolve_variables")
        => WarnsOnceAndResolvesNothing

\* resolve_variables is over with a composer.json that is missing
C11_WitnessMissing ==
    /\ composer.state = "missing"
    /\ pc = "get_prompt"
    /\ Len(log) = 3

----------------------------------------------------------------------------
(* run, from construction on: the command definition missing, malformed,   *)
(* or one of a pool (one argument or two with the same alias; no variable  *)
(* or one; no <prompt>, an empty one, or one with text; no <context> or    *)
(* one), with a command line that gives the argument, leaves it out, or    *)
(* holds an undeclared flag, and each composer.json of the pool.           *)

EmptyRoot == Root(<<>>, <<>>, <<>>, <<>>)

ArgX == [id |-> <<"X">>, alias |-> <<"a", "-", "b">>, question |-> <<"?">>]
ArgY == [id |-> <<"Y">>, alias |-> <<"a", "-", "b">>, question |-> <<"?">>]
VarV == [id |-> <<"V">>, argument |-> <<"X">>, converter |-> "resolveClassPath"]

RootPool ==
    {Root(as, vs, ps, cs) :
        as \in {<<ArgX>>, <<ArgX, ArgY>>},
        vs \in {<<>>, <<VarV>>},
        ps \in {<<>>, <<None>>, << <<"X">> >>, << <<"\n", " ", "X", " ", "V", "\n">> >>},
        cs \in {<<>>, << <<<<"t">>, <<"$", "V">>, <<"$", "Z">>>> >>}}

Sources ==
    {[state |-> "missing", root |-> EmptyRoot], [state |-> "malformed", root |-> EmptyRoot]}
        \cup {[state |-> "ok", root |-> r] : r \in RootPool}

CommandLines ==
    {<<>>,
     <<<<"-", "-", "a", "-", "b">>, <<Sep, "C">>>>,
     <<<<"-", "-", "a", "-", "b", "=", Sep, "A", Sep, "C">>>>,
     <<<<"-", "-", "x">>, <<"v">>>>,
     <<<<"-", "-", "h">>>>}

\* Assistant.__init__
Init ==
    /\ source \in Sources
    /\ args \in CommandLines
    /\ composer \in ComposerPool
    /\ xml_root = NoRoot
    /\ replacements = <<>>
    /\ asked = <<>>
    /\ pc = "parse_xml"
    /\ prompt = None
    /\ context = <<>>
    /\ calls = <<>>
    /\ log = <<>>
    /\ raised = ""

Next ==
    \/ ParseXml
    \/ ParseXmlFails
    \/ ProcessArguments
    \/ ProcessArgumentsExit
    \/ ProcessArgumentsConflict
    \/ ResolveVariables
    \/ ResolveVariablesRaises
    \/ GetPrompt
    \/ GetPromptRaises
    \/ GetContext
    \/ CreateClient
    \/ Startup
    \/ StartupReturns
    \/ CallMentatAutoAccept
    \/ CallMentatAutoAcceptReturns
    \/ Shutdown
    \/ ShutdownReturns

Spec == Init /\ [][Next]_vars

\* run is over: it returned from its except clause, returned at its end, or
\* an exception left it
RunEnded == pc \in {"returned", "done", "raised"}

\* the command definition is missing, is not well-formed, or has no prompt
FatalSpecError ==
    \/ source.state \in {"missing", "malformed"}
    \/ source.state = "ok" /\ PromptMissing(source.root)

\* the argument parser ended the process before the prompt was looked at
ParserEndedRun == raised \in {"SystemExit(2)", "SystemExit(0)", "ArgumentError"}

\* the Converter's constructor ended the run before the prompt was looked at
ConverterEndedRun == raised \in {"PermissionError", "JSONDecodeError"}

\* C8: every fatal specification error (file missing, not well-formed, no
\* prompt) is caught in run and logged, and run returns without raising and
\* without creating or starting the client.
C8_FatalErrorsCaught ==
    (FatalSpecError /\ RunEnded /\ ~ParserEndedRun /\ ~ConverterEndedRun)
        => /\ pc = "returned"
           /\ raised = ""
           /\ \E i \in 1..Len(log) : log[i][1] = "ERROR"
           /\ calls = <<>>

\* the same for the two errors parse_xml raises
C8_LoadErrorsCaught ==
    (source.state \in {"missing", "malformed"} /\ RunEnded)
        => /\ pc = "returned"
           /\ raised = ""
           /\ \E i \in 1..Len(log) : log[i][1] = "ERROR"
           /\ calls = <<>>

\* the calls run makes to the client, and their returns, in order
ExpectedCalls ==
    << <<"call", "Mentat", context>>,
       <<"call", "startup", <<>>>>, <<"return", "startup", <<>>>>,
       <<"call", "call_mentat_auto_accept", prompt>>,
       <<"return", "call_mentat_auto_accept", <<>>>>,
       <<"call", "shutdown", <<>>>>, <<"return", "shutdown", <<>>>> >>

\* C10: in a run whose definition loads and whose values resolve, the client
\* is created once with the rendered context, then startup, then
\* call_mentat_auto_accept with the rendered prompt, then shutdown, are each
\* called once, each after the one before has returned, and none before
\* the prompt and the context are rendered.
C10_ClientLifecycleInOrder ==
    /\ Len(calls) <= Len(ExpectedCalls)
    /\ calls = SubSeq(ExpectedCalls, 1, Len(calls))
    /\ pc = "done" => calls = ExpectedCalls
    /\ calls # <<>> =>
          /\ xml_root # NoRoot
          /\ ~PromptMissing(xml_root[1])
          /\ prompt = RenderPrompt(Template, replacements)
          /\ context = RenderContext(xml_root[1], replacements)
          /\ pc \in {"startup", "await", "call_mentat_auto_accept", "shutdown", "done"}

\* run is done, having passed the client a context with a resolved reference
\* and a prompt in which a placeholder was replaced
C10_Witness ==
    /\ pc = "done"
    /\ calls = ExpectedCalls
    /\ Len(context) = 2
    /\ prompt # Template

====
